---- MODULE Spec2Model ----
(***************************************************************************)
(* A model of fautil-scaffold: the component scanner and container          *)
(* bootstrap (src/core/setup.py), the class-based views (src/core/cbv.py),  *)
(* the retry decorator (src/core/backoff.py), the request middleware and    *)
(* shutdown (src/wsgi.py), the configuration loader (src/core/config.py)    *)
(* and the example user resource (src/controller, src/service, src/dao).    *)
(*                                                                          *)
(* Each subsystem has its own specification (SpecScan, SpecBoot, SpecView,  *)
(* SpecCall, SpecRetry, SpecWsgi, SpecConfig, SpecUser); the variables of   *)
(* the other subsystems stay at their initial value.                        *)
(***************************************************************************)
EXTENDS Integers, Sequences, FiniteSets, TLC

VARIABLES
    package,             \* the package tree handed to the scanner (file system + import outcomes)
    scanResult,          \* outcome of the last _scan_package(package) call
    bootResult,          \* outcome of the last setup_modules(package) call
    _registered_modules, \* setup.py: the process-wide binding registry
    injector,            \* setup.py: the container constructed last
    configured,          \* setup.py: the scan maps of the Binding Modules that have configured a container
    allBindings,         \* outcome of the last get_all_bindings(injector) call
    views,               \* cbv.py: the view types defined so far (class attributes and _routes)
    app,                 \* cbv.py: the routes of the FastAPI application, in mount order
    lastRegister,        \* cbv.py: what the last register call did
    lastCall,            \* cbv.py: what the last call of a mounted handler did
    retry,               \* backoff.py: a call of a backoff_retry wrapper in progress
    IS_SHUTTING_DOWN,    \* wsgi.py: set by shutdown_app
    ACTIVE_REQUESTS,     \* wsgi.py: the counter of the request middleware
    requests,            \* wsgi.py: where each request is in request_middleware
    shutdown,            \* wsgi.py: where shutdown_app is, and its wait_seconds
    environ,             \* config.py: os.environ, the environment of the process
    dotenvFile,          \* config.py: the KEY=VALUE lines of the .env file that is found
    configFile,          \* config.py: the dict parsed from the config file that is found
    settings,            \* config.py: what the last load_settings call returned
    users,               \* dao/impl/user.py: UserDao.users
    response             \* the last HTTP response of the user resource

scanVars == <<package, scanResult, bootResult, _registered_modules,
              injector, configured, allBindings>>
viewVars == <<views, app, lastRegister, lastCall>>
userVars == <<users, response>>
retryVars == <<retry>>
wsgiVars == <<IS_SHUTTING_DOWN, ACTIVE_REQUESTS, requests, shutdown>>
configVars == <<environ, dotenvFile, configFile, settings>>
sideVars == <<retryVars, wsgiVars, configVars>>
vars == <<package, scanResult, bootResult, _registered_modules,
          injector, configured, allBindings,
          views, app, lastRegister, lastCall, retry,
          IS_SHUTTING_DOWN, ACTIVE_REQUESTS, requests, shutdown,
          environ, dotenvFile, configFile, settings, users, response>>

(***************************************************************************)
(* Python values                                                            *)
(***************************************************************************)
None == "None"

\* a dict with no entry
EmptyDict == [k \in {} |-> None]

\* dict.update(other): the entries of other replace those of d
DictUpdate(d, other) ==
    [k \in (DOMAIN d) \cup (DOMAIN other) |->
        IF k \in DOMAIN other THEN other[k] ELSE d[k]]

\* an optional list argument: None, or a list
NoneList == [isNone |-> TRUE, v |-> <<>>]
Some(v) == [isNone |-> FALSE, v |-> v]

\* x or y, for x an optional list argument: y when x is None or empty
OrDefault(x, y) == IF x.isNone \/ x.v = <<>> THEN y ELSE x.v

\* x or y, for x a list: y when x is empty
Or(x, y) == IF x = <<>> THEN y ELSE x

(***************************************************************************)
(* src/core/setup.py: the component scanner                                 *)
(***************************************************************************)

\* The outcome of importing a unit: it imports, or the import raises.
\* "AttributeError" stands for the kinds _scan_package catches besides
\* ImportError (AttributeError, FileNotFoundError, PermissionError, OSError),
\* "OtherError" for any other kind (SyntaxError, ValueError, NameError, ...).
ImportOutcomes == {"ok", "ImportError", "AttributeError", "OtherError"}
ImportFailures == ImportOutcomes \ {"ok"}

\* A member of a module, as inspect.getmembers lists it (sorted by name): a
\* class or function obj, the protocol obj.__setup__ holds ("unmarked" when
\* obj has no __setup__ attribute), and whether @setup was applied to obj
\* itself.
Member(obj, protocol) ==
    [obj |-> obj, protocol |-> protocol, applied |-> protocol # "unmarked"]

\* class obj(base): a class without @setup of its own; the attribute lookup
\* obj.__setup__ finds the one of its base class
Subclass(obj, base) ==
    [obj |-> obj, protocol |-> base.protocol, applied |-> FALSE]

\* setup(protocol)(target): target.__setup__ = {"protocol": protocol}
setup(protocol, target) == Member(target, protocol)

\* _is_setup_decorated(obj): hasattr(obj, "__setup__")
_is_setup_decorated(m) == m.protocol # "unmarked"

\* the binding key of a marked member
binding_type(m) == IF m.protocol = None THEN m.obj ELSE m.protocol

\* A unit of the tree: a module, or a package (a directory with __init__.py)
\* with the members of its __init__ and the items of its directory in
\* iterdir order.
Unit(kind, imp, members, items) ==
    [kind |-> kind, imp |-> imp, members |-> members, items |-> items]

\* the outcome of a scan: the exception that left it ("none" when it
\* returned), the returned map, and the log events it recorded
ScanOutcome(raised, objs, log) ==
    [called |-> TRUE, raised |-> raised, objs |-> objs, log |-> log]

\* the loop of _scan_module over the members: a marked member is entered
\* under its binding key unless the key is already there
RECURSIVE ModuleObjects(_, _)
ModuleObjects(members, setup_objects) ==
    IF members = <<>> THEN setup_objects
    ELSE LET m == Head(members)
             next == IF _is_setup_decorated(m)
                        /\ binding_type(m) \notin DOMAIN setup_objects
                     THEN DictUpdate(setup_objects,
                                     [k \in {binding_type(m)} |-> m.obj])
                     ELSE setup_objects
         IN  ModuleObjects(Tail(members), next)

\* the debug events of that loop, one per member entered
RECURSIVE ModuleLog(_, _)
ModuleLog(members, seen) ==
    IF members = <<>> THEN <<>>
    ELSE LET m == Head(members)
             enters == _is_setup_decorated(m) /\ binding_type(m) \notin seen
         IN  (IF enters THEN <<"debug">> ELSE <<>>)
             \o ModuleLog(Tail(members),
                          IF enters THEN seen \cup {binding_type(m)} ELSE seen)

\* _scan_module(module_name): only ImportError is caught
_scan_module(u) ==
    IF u.imp = "ok"
    THEN ScanOutcome("none", ModuleObjects(u.members, EmptyDict),
                     ModuleLog(u.members, {}))
    ELSE IF u.imp = "ImportError"
    THEN ScanOutcome("none", EmptyDict, <<"error">>)
    ELSE ScanOutcome(u.imp, EmptyDict, <<>>)

\* what the except clauses of _scan_package make of an exception raised in
\* its try block, with the log recorded up to there
PackageExcept(raised, log) ==
    IF raised \in {"ImportError", "AttributeError"}
    THEN ScanOutcome("none", EmptyDict, log \o <<"error">>)
    ELSE ScanOutcome(raised, EmptyDict, log)

RECURSIVE _scan_package(_)
\* the loop of _scan_package over the directory items, from a map collected
\* so far: the map of each item is merged in with dict.update; an exception
\* of an item leaves the loop
RECURSIVE ScanItems(_, _)
ScanItems(items, acc) ==
    IF items = <<>> \/ acc.raised # "none" THEN acc
    ELSE LET item == Head(items)
             r == IF item.kind = "pkg" THEN _scan_package(item)
                                       ELSE _scan_module(item)
         IN  ScanItems(Tail(items),
                       ScanOutcome(r.raised,
                                   IF r.raised = "none"
                                   THEN DictUpdate(acc.objs, r.objs)
                                   ELSE acc.objs,
                                   acc.log \o r.log))

_scan_package(u) ==
    IF u.imp # "ok"
    THEN PackageExcept(u.imp, <<"debug">>)
    ELSE LET own == _scan_module(u)
             all == IF u.kind = "pkg"
                    THEN ScanItems(u.items,
                                   ScanOutcome("none", own.objs,
                                               <<"debug">> \o own.log))
                    ELSE ScanOutcome("none", own.objs, <<"debug">> \o own.log)
         IN  IF all.raised = "none" THEN all
             ELSE PackageExcept(all.raised, all.log)

\* setup_modules(package_pattern): the scan, the module class, the Injector.
\* Constructing the Injector runs SetupModule.configure, which enters the
\* scanned pairs in _registered_modules and binds them in the container.
\* (returned: an Injector was returned; bindings: what it binds)
BootOutcome(raised, returned, bindings) ==
    [called |-> TRUE, raised |-> raised, returned |-> returned, bindings |-> bindings]

setup_modules(u) ==
    LET setup_objects == _scan_package(u)
    IN  IF setup_objects.raised # "none"
        THEN BootOutcome(setup_objects.raised, FALSE, EmptyDict)
        ELSE BootOutcome("none", TRUE, setup_objects.objs)

\* a configure that replaces the registry by the scan map
configure_Replaces(registered, setup_objects) == setup_objects

\* SetupModule.configure: _registered_modules.update(setup_objects)
configure(registered, setup_objects) == DictUpdate(registered, setup_objects)

\* Injector([module_class]): a container with the bindings of the scan map
Injector(setup_objects) == [built |-> TRUE, bindings |-> setup_objects]

\* before any container is constructed
NoInjector == [built |-> FALSE, bindings |-> EmptyDict]

\* The outcome of injector.get(binding_type): an instance, or an exception.
\* "TypeError" stands for the kinds get_all_bindings catches (KeyError,
\* TypeError, ValueError, AttributeError), "RuntimeError" for any other kind
\* (an exception of the constructor, injector.CallError,
\* injector.UnsatisfiedRequirement, ...).
ResolveOutcomes == {"ok", "TypeError", "RuntimeError"}

\* the instance injector.get(binding_type) returns when it resolves: one of
\* the bound implementation, or of the type itself when the container has no
\* binding for it
Instance(inj, key) ==
    [of |-> IF key \in DOMAIN inj.bindings
            THEN inj.bindings[key] ELSE key]

\* the outcome of get_all_bindings: the exception that left it ("none" when
\* it returned), how each key resolved, the returned map and the log events
BindingsOutcome(raised, resolves, result, log) ==
    [called |-> TRUE, raised |-> raised, resolves |-> resolves,
     result |-> result, log |-> log]

NoBindings ==
    [called |-> FALSE, raised |-> "none", resolves |-> EmptyDict,
     result |-> EmptyDict, log |-> <<>>]

\* the loop of get_all_bindings over the keys of the registry: an instance
\* is entered in the result, a caught exception is logged as a warning, any
\* other exception leaves the function
RECURSIVE ResolveLoop(_, _, _)
ResolveLoop(keys, inj, acc) ==
    IF keys = <<>> \/ acc.raised # "none" THEN acc
    ELSE LET key == Head(keys)
             got == acc.resolves[key]
         IN  ResolveLoop(Tail(keys), inj,
                IF got = "ok"
                THEN BindingsOutcome("none", acc.resolves,
                        DictUpdate(acc.result,
                            [k \in {key} |-> Instance(inj, key)]),
                        acc.log)
                ELSE IF got = "TypeError"
                THEN BindingsOutcome("none", acc.resolves, acc.result,
                        Append(acc.log, [level |-> "warning", key |-> key]))
                ELSE BindingsOutcome(got, acc.resolves, EmptyDict, acc.log))

\* get_all_bindings(injector), the registry iterated in the order keys
get_all_bindings(keys, inj, resolves) ==
    ResolveLoop(keys, inj, BindingsOutcome("none", resolves, EmptyDict, <<>>))

(***************************************************************************)
(* src/core/backoff.py: backoff_retry                                       *)
(***************************************************************************)
\* x ** n for a natural n
RECURSIVE Pow(_, _)
Pow(x, n) == IF n = 0 THEN 1 ELSE x * Pow(x, n - 1)

Min(a, b) == IF a <= b THEN a ELSE b

\* no wrapper has been called
NoRetry ==
    [pc |-> "idle", max_retries |-> 0, base_delay |-> 0, max_delay |-> 0,
     factor |-> 0, jitter |-> FALSE, attempt |-> 0, invoked |-> <<>>,
     slept |-> <<>>, returned |-> 0, raised |-> 0]

\* wrapper(*args): the loop starts at attempt 0, which does not sleep.
\* invoked holds the outcome of each invocation of func, slept the delays;
\* returned and raised name the invocation whose result or exception left
\* the wrapper (0: none)
Wrapper(max_retries, base_delay, max_delay, factor, jitter) ==
    [pc |-> IF max_retries + 1 > 0 THEN "invoke" ELSE "asserted",
     max_retries |-> max_retries, base_delay |-> base_delay,
     max_delay |-> max_delay, factor |-> factor, jitter |-> jitter,
     attempt |-> 0, invoked |-> <<>>, slept |-> <<>>, returned |-> 0, raised |-> 0]

\* the delay before attempt > 0: capped, then multiplied by 0.5 +
\* random.random() when jitter is on (tenths: the multiplier times ten)
Delay(r, tenths) ==
    LET delay == Min(r.base_delay * Pow(r.factor, r.attempt - 1), r.max_delay)
    IN  [capped |-> delay,
         delay |-> IF r.jitter THEN (delay * tenths) \div 10 ELSE delay]

\* a wrapper that gives up one failure later
AfterInvoke_OneMore(r, outcome) ==
    LET invoked == Append(r.invoked, outcome)
    IN  IF outcome = "ok"
        THEN [r EXCEPT !.pc = "returned", !.invoked = invoked, !.returned = Len(invoked)]
        ELSE IF outcome = "retryable" /\ r.attempt <= r.max_retries
        THEN [r EXCEPT !.pc = "sleep", !.invoked = invoked, !.attempt = @ + 1]
        ELSE [r EXCEPT !.pc = "raised", !.invoked = invoked, !.raised = Len(invoked)]

\* return func(*args, **kwargs) in the try block: the result is returned; an
\* exception of the exceptions tuple leads to the next attempt, or is raised
\* again at attempt == max_retries; any other exception leaves the wrapper
AfterInvoke(r, outcome) ==
    LET invoked == Append(r.invoked, outcome)
    IN  IF outcome = "ok"
        THEN [r EXCEPT !.pc = "returned", !.invoked = invoked, !.returned = Len(invoked)]
        ELSE IF outcome = "retryable" /\ r.attempt # r.max_retries
        THEN [r EXCEPT !.pc = "sleep", !.invoked = invoked, !.attempt = @ + 1]
        ELSE [r EXCEPT !.pc = "raised", !.invoked = invoked, !.raised = Len(invoked)]

(***************************************************************************)
(* src/wsgi.py: request_middleware and shutdown_app                         *)
(***************************************************************************)
\* the most requests in the model
MaxRequests == 2

\* where a request is: not yet arrived ("new"), passed to call_next
\* ("handling"), or answered; status is the status of the answer (0: none
\* yet, 500: the exception of the handler was raised again)
Request(pc, status) == [pc |-> pc, status |-> status]

NewRequest == Request("new", 0)

\* request_middleware up to call_next: 503 while IS_SHUTTING_DOWN, otherwise
\* the request is counted and passed on
Enter(is_shutting_down) ==
    IF is_shutting_down THEN Request("rejected", 503) ELSE Request("handling", 0)

\* a middleware that passes every request on
Admitted_Always(is_shutting_down, active) == active + 1

\* ACTIVE_REQUESTS after the entry of a request
Admitted(is_shutting_down, active) ==
    IF is_shutting_down THEN active ELSE active + 1

\* how call_next ends
HandlerOutcomes == {"response", "Exception"}

\* a middleware that counts down after a response only
Finished_NoFinally(active, outcome) ==
    IF outcome = "response" THEN active - 1 ELSE active

\* ACTIVE_REQUESTS after call_next: the finally clause counts down on both
\* ways out
Finished(active, outcome) == active - 1

\* max_wait of shutdown_app: the most one-second rounds it waits
max_wait == 30

\* where shutdown_app is
Shutdown(pc, wait_seconds) == [pc |-> pc, wait_seconds |-> wait_seconds]

NotShuttingDown == Shutdown("idle", 0)

\* the condition of the wait loop
KeepsWaiting(active, wait_seconds) == active > 0 /\ wait_seconds < max_wait

\* how with_timeout(shutdown_resources(), ...) ends
ReleaseOutcomes == {"released", "TimeoutError"}

\* a shutdown_app that lets the TimeoutError of with_timeout through
AfterRelease_Raises(outcome) ==
    IF outcome = "TimeoutError" THEN "raised" ELSE "closed"

\* shutdown_app after with_timeout: asyncio.TimeoutError is caught and
\* passed over, the last step is reached either way
AfterRelease(outcome) == "closed"

(***************************************************************************)
(* The package trees the scanner is run on                                  *)
(***************************************************************************)
\* the most items a scanned root directory holds
MaxItems == 2


MemberLists ==
    { <<>>,
      << setup("P1", "A"), Member("D", "unmarked") >>,
      << setup("P1", "B"), setup(None, "C") >>,
      << setup("P1", "A"), setup("P1", "B") >>,
      << setup(None, "C"), Subclass("D", setup(None, "C")) >> }

InitMemberLists == { <<>>, << setup("P1", "C") >> }

Modules ==
    { Unit("mod", "ok", ms, <<>>) : ms \in MemberLists }
    \cup { Unit("mod", e, <<>>, <<>>) : e \in ImportFailures }

SubPackages ==
    { Unit("pkg", "ok", ms, items) :
        ms \in InitMemberLists, items \in {<<>>} \cup { <<m>> : m \in Modules } }
    \cup { Unit("pkg", e, <<>>, <<>>) : e \in ImportFailures }

SeqsUpTo(S, n) == UNION { [1..k -> S] : k \in 0..n }

RootPackages ==
    { Unit("pkg", "ok", ms, items) :
        ms \in InitMemberLists, items \in SeqsUpTo(Modules \cup SubPackages, MaxItems) }
    \cup { Unit("pkg", e, <<>>, <<>>) : e \in ImportFailures }
    \cup { Unit("mod", "ok", ms, <<>>) : ms \in MemberLists }

\* the most items of the root directory of a package containers are built from
MaxBootItems == 1

BootPackages ==
    { Unit("pkg", "ok", ms, items) :
        ms \in InitMemberLists, items \in SeqsUpTo(Modules \cup SubPackages, MaxBootItems) }

\* the units of a tree: the unit and the units below it
RECURSIVE UnitsOf(_)
UnitsOf(u) == {u} \cup UNION { UnitsOf(u.items[i]) : i \in 1..Len(u.items) }

\* the orders a set of keys can be iterated in
Orders(S) ==
    { f \in [1..Cardinality(S) -> S] :
        \A i, j \in 1..Cardinality(S) : i # j => f[i] # f[j] }

\* before any call
NoScan == [called |-> FALSE, raised |-> "none", objs |-> EmptyDict, log |-> <<>>]
NoBoot == [called |-> FALSE, raised |-> "none", returned |-> FALSE, bindings |-> EmptyDict]

(***************************************************************************)
(* src/core/cbv.py: route descriptors and view types                        *)
(***************************************************************************)
\* route.__init__: the descriptor of a route decorator.  rejected says that
\* the router refuses the route when it is added (a path or verb it does not
\* accept); nothing in cbv.py looks at it.
route(path, methods, tags, dependencies, status_code, rejected) ==
    [path |-> path,
     methods |-> methods,
     tags |-> OrDefault(tags, <<>>),
     dependencies |-> OrDefault(dependencies, <<>>),
     status_code |-> status_code,
     rejected |-> rejected]

NoRouteInfo == route("", NoneList, NoneList, NoneList, 0, FALSE)

\* a function of a class body: route.__call__ leaves _route_info on it
\* a function of a class body: whether it is a coroutine function (async
\* def), its parameters, and the _route_info route.__call__ leaves on it
Function(is_async, parameters, decorated, route_info) ==
    [is_async |-> is_async, parameters |-> parameters,
     decorated |-> decorated, _route_info |-> route_info]

\* an async def method(self, user_id) of a class body
Method(decorated, route_info) ==
    Function(TRUE, <<"self", "user_id">>, decorated, route_info)

\* APIView itself: the class attributes every view type inherits
APIView == "APIView"
APIViewAttrs ==
    [path |-> "", tags |-> <<>>, dependencies |-> <<>>, router_kwargs |-> EmptyDict]

\* cls.attr: the attribute of the nearest class of the MRO that sets it
RECURSIVE ClassAttr(_, _, _)
ClassAttr(vs, cls, attr) ==
    IF cls = APIView THEN APIViewAttrs[attr]
    ELSE IF attr \in vs[cls].own THEN vs[cls][attr]
    ELSE ClassAttr(vs, vs[cls].base, attr)

\* cls.is_registered: set on a class by register, read through the MRO
RECURSIVE is_registered(_, _)
is_registered(vs, cls) ==
    IF cls = APIView THEN FALSE
    ELSE IF vs[cls].registered THEN TRUE
    ELSE is_registered(vs, vs[cls].base)

\* the names of the functions inspect.getmembers(cls, isfunction) lists:
\* those of the class body and those of every ancestor
RECURSIVE MemberNames(_, _)
MemberNames(vs, cls) ==
    IF cls = APIView THEN {}
    ELSE (DOMAIN vs[cls].methods) \cup MemberNames(vs, vs[cls].base)

\* the class of the MRO whose body defines the function cls.name
RECURSIVE Owner(_, _, _)
Owner(vs, cls, name) ==
    IF name \in DOMAIN vs[cls].methods THEN cls ELSE Owner(vs, vs[cls].base, name)

\* the names of a set in sorted order (the order of inspect.getmembers)
RECURSIVE Sorted(_)
Sorted(S) ==
    IF S = {} THEN <<>>
    ELSE LET m == CHOOSE x \in S : \A y \in S : x <= y
         IN  <<m>> \o Sorted(S \ {m})

\* RegistryRow with the tags of the view type taken before those of the route
RegistryRow_ViewTagsFirst(vs, cls, name) ==
    LET owner == Owner(vs, cls, name)
        route_info == vs[owner].methods[name]._route_info
    IN  [path |-> route_info.path,
         status_code |-> route_info.status_code,
         tags |-> Or(ClassAttr(vs, cls, "tags"), route_info.tags),
         dependencies |-> route_info.dependencies \o ClassAttr(vs, cls, "dependencies"),
         methods |-> route_info.methods,
         rejected |-> route_info.rejected,
         endpoint |-> [owner |-> owner, name |-> name]]

\* RegistryRow with the dependencies of the route replacing those of the view
\* type instead of joining them
RegistryRow_DependenciesOr(vs, cls, name) ==
    LET owner == Owner(vs, cls, name)
        route_info == vs[owner].methods[name]._route_info
    IN  [path |-> route_info.path,
         status_code |-> route_info.status_code,
         tags |-> Or(route_info.tags, ClassAttr(vs, cls, "tags")),
         dependencies |-> Or(route_info.dependencies, ClassAttr(vs, cls, "dependencies")),
         methods |-> route_info.methods,
         rejected |-> route_info.rejected,
         endpoint |-> [owner |-> owner, name |-> name]]

\* the row __init_subclass__ appends for a function with _route_info
RegistryRow(vs, cls, name) ==
    LET owner == Owner(vs, cls, name)
        route_info == vs[owner].methods[name]._route_info
    IN  [path |-> route_info.path,
         status_code |-> route_info.status_code,
         tags |-> Or(route_info.tags, ClassAttr(vs, cls, "tags")),
         dependencies |-> route_info.dependencies \o ClassAttr(vs, cls, "dependencies"),
         methods |-> route_info.methods,
         rejected |-> route_info.rejected,
         endpoint |-> [owner |-> owner, name |-> name]]

\* APIView.__init_subclass__: cls._routes, one row per listed function that
\* carries _route_info
RECURSIVE RowsOf(_, _, _)
RowsOf(vs, cls, names) ==
    IF names = <<>> THEN <<>>
    ELSE LET name == Head(names)
             method == vs[Owner(vs, cls, name)].methods[name]
         IN  (IF method.decorated THEN << RegistryRow(vs, cls, name) >> ELSE <<>>)
             \o RowsOf(vs, cls, Tail(names))

__init_subclass__(vs, cls) == RowsOf(vs, cls, Sorted(MemberNames(vs, cls)))

\* the class statement: the body becomes the type cls, and the hook builds
\* its _routes
DefineClass(vs, cls, body) ==
    LET class == [base |-> body.base, own |-> body.own, path |-> body.path,
                  tags |-> body.tags, dependencies |-> body.dependencies,
                  router_kwargs |-> body.router_kwargs, methods |-> body.methods,
                  _routes |-> <<>>, registered |-> FALSE]
        defined == [c \in (DOMAIN vs) \cup {cls} |-> IF c = cls THEN class ELSE vs[c]]
    IN  [defined EXCEPT ![cls]._routes = __init_subclass__(defined, cls)]

(***************************************************************************)
(* src/core/cbv.py: register                                                *)
(***************************************************************************)
\* router.add_api_route(path=..., endpoint=..., ...): the route the router
\* holds for a row, at the router's prefix; endpoint is the closure of
\* create_endpoint(route_info, self)
add_api_route(router_kwargs, row, instance) ==
    [path |-> router_kwargs["prefix"] \o row.path,
     methods |-> IF row.methods.isNone THEN <<"GET">> ELSE row.methods.v,
     status_code |-> row.status_code,
     tags |-> row.tags,
     dependencies |-> row.dependencies,
     endpoint |-> [func |-> row.endpoint, instance |-> instance]]

\* _register_routes with a loop that stops one row early
RECURSIVE _register_routes_StopsEarly(_, _, _, _)
_register_routes_StopsEarly(rows, i, router_kwargs, instance) ==
    IF i >= Len(rows) THEN [raised |-> "none", routes |-> <<>>]
    ELSE IF rows[i].rejected THEN [raised |-> "RouteError", routes |-> <<>>]
    ELSE LET rest == _register_routes_StopsEarly(rows, i + 1, router_kwargs, instance)
         IN  [raised |-> rest.raised,
              routes |-> << add_api_route(router_kwargs, rows[i], instance) >> \o rest.routes]

\* _register_routes that passes over a row the router refuses
RECURSIVE _register_routes_SkipsRejected(_, _, _, _)
_register_routes_SkipsRejected(rows, i, router_kwargs, instance) ==
    IF i > Len(rows) THEN [raised |-> "none", routes |-> <<>>]
    ELSE LET rest == _register_routes_SkipsRejected(rows, i + 1, router_kwargs, instance)
         IN  [raised |-> rest.raised,
              routes |-> (IF rows[i].rejected THEN <<>>
                          ELSE << add_api_route(router_kwargs, rows[i], instance) >>)
                         \o rest.routes]

\* the loop of _register_routes from row i on: the routes added to the
\* router, until a row the router refuses
RECURSIVE _register_routes(_, _, _, _)
_register_routes(rows, i, router_kwargs, instance) ==
    IF i > Len(rows) THEN [raised |-> "none", routes |-> <<>>]
    ELSE IF rows[i].rejected THEN [raised |-> "RouteError", routes |-> <<>>]
    ELSE LET rest == _register_routes(rows, i + 1, router_kwargs, instance)
         IN  [raised |-> rest.raised,
              routes |-> << add_api_route(router_kwargs, rows[i], instance) >> \o rest.routes]

\* RouterKwargs with a full_prefix that leaves out the path of the view
RouterKwargs_PrefixOnly(vs, cls, prefix) ==
    LET full_prefix == prefix
        router_kwargs == [k \in {"prefix"} |-> full_prefix]
        own == ClassAttr(vs, cls, "router_kwargs")
    IN  IF own # EmptyDict /\ Cardinality(DOMAIN own) > 1
        THEN DictUpdate(router_kwargs, own)
        ELSE router_kwargs

\* the keyword arguments register builds for APIRouter
RouterKwargs(vs, cls, prefix) ==
    LET full_prefix == prefix \o ClassAttr(vs, cls, "path")
        router_kwargs == [k \in {"prefix"} |-> full_prefix]
        own == ClassAttr(vs, cls, "router_kwargs")
    IN  IF own # EmptyDict /\ Cardinality(DOMAIN own) > 1
        THEN DictUpdate(router_kwargs, own)
        ELSE router_kwargs

\* a register that builds the rows of the view type again
SetRegistered_RebuildsRoutes(vs, cls) ==
    [vs EXCEPT ![cls].registered = TRUE,
               ![cls]._routes = @ \o __init_subclass__(vs, cls)]

\* a register that flips the flag
SetRegistered_Flips(vs, cls) == [vs EXCEPT ![cls].registered = ~@]

\* self.__class__.is_registered = True
SetRegistered(vs, cls) == [vs EXCEPT ![cls].registered = TRUE]

\* a register whose routes go on the application one by one as they are added
AppAfterRegister_MountsDirectly(application, router) == application \o router.routes

\* the application after register: app.include_router(router) is reached
\* only when _register_routes has returned
AppAfterRegister(application, router) ==
    IF router.raised = "none" THEN application \o router.routes ELSE application

\* the outcome of calling a mounted handler: the route and the arguments,
\* the exception that left the handler, what it returned, and its signature
CallOutcome(index, args, raised, result, signature) ==
    [called |-> TRUE, route |-> index, args |-> args, raised |-> raised,
     result |-> result, signature |-> signature]

\* what the method func returns when called on self with args: the result
\* names the call that produced it
MethodResult(func, self, args) == [func |-> func, self |-> self, args |-> args]

NoResult == MethodResult([owner |-> APIView, name |-> 0], 0, <<>>)

NoCall == [called |-> FALSE, route |-> 0, args |-> <<>>, raised |-> "none",
           result |-> NoResult, signature |-> <<>>]

\* create_endpoint: the signature of the handler, the parameters of the
\* method after the first
EndpointSignature(vs, ep) ==
    LET parameters == vs[ep.func.owner].methods[ep.func.name].parameters
    IN  IF parameters = <<>> THEN <<>> ELSE Tail(parameters)

\* create_endpoint.endpoint(*args): await route_info["endpoint"](instance,
\* *args); awaiting what a plain def returned raises TypeError
endpoint(vs, index, ep, args) ==
    LET method == vs[ep.func.owner].methods[ep.func.name]
    IN  IF method.is_async
        THEN CallOutcome(index, args, "none",
                         MethodResult(ep.func, ep.instance, args),
                         EndpointSignature(vs, ep))
        ELSE CallOutcome(index, args, "TypeError", NoResult,
                         EndpointSignature(vs, ep))

\* what a register call did: the exception that left it, the view type and
\* instance, the prefix, the APIRouter arguments and the routes added to the
\* router
RegisterOutcome(raised, cls, instance, prefix, router_kwargs, routes) ==
    [called |-> TRUE, raised |-> raised, cls |-> cls, instance |-> instance,
     prefix |-> prefix, router_kwargs |-> router_kwargs, routes |-> routes]

NoRegister ==
    [called |-> FALSE, raised |-> "none", cls |-> APIView, instance |-> 0,
     prefix |-> "", router_kwargs |-> EmptyDict, routes |-> <<>>]

(***************************************************************************)
(* src/dao/impl/user.py, src/service/impl/user.py, src/controller/user.py   *)
(***************************************************************************)
User(id, name) == [id |-> id, name |-> name]

NoUser == User(0, "")

\* UserDao.__init__: the example users
InitialUsers ==
    << User(1, "John Doe"), User(2, "Jane Doe"), User(3, "Jim Doe"),
       User(4, "Jill Doe"), User(5, "Jack Doe"), User(6, "Jill Doe"),
       User(7, "Jack Doe"), User(8, "Jill Doe"), User(9, "Jack Doe"),
       User(10, "Jill Doe") >>

\* what a DAO call gives: the exception that left it, whether it returned a
\* user (not None), that user, and the list afterwards
DaoOutcome(raised, found, user, list) ==
    [raised |-> raised, found |-> found, user |-> user, list |-> list]

\* list[index] of Python for a 0-based index: negative indexes count from the
\* end, an index outside the list raises IndexError
PyIndex(list, index) ==
    IF index >= 0 /\ index < Len(list) THEN [raised |-> "none", item |-> list[index + 1]]
    ELSE IF index < 0 /\ index >= -Len(list)
    THEN [raised |-> "none", item |-> list[Len(list) + index + 1]]
    ELSE [raised |-> "IndexError", item |-> NoUser]

\* UserDao.get_user: the user at position user_id - 1
get_user(list, user_id) ==
    LET max_id == Len(list)
    IN  IF user_id > max_id THEN DaoOutcome("none", FALSE, NoUser, list)
        ELSE LET at == PyIndex(list, user_id - 1)
             IN  DaoOutcome(at.raised, at.raised = "none", at.item, list)

\* UserDao.get_users
get_users(list) == list

\* UserDao.create_user: the new user gets id len(users) + 1
create_user(list, name) ==
    LET new_user == User(Len(list) + 1, name)
    IN  DaoOutcome("none", TRUE, new_user, Append(list, new_user))

\* UserDao.update_user: the first user with the id is renamed; ValueError
\* when there is none
update_user(list, user_id, name) ==
    LET found == { i \in 1..Len(list) : list[i].id = user_id }
    IN  IF found = {} THEN DaoOutcome("ValueError", FALSE, NoUser, list)
        ELSE LET i == CHOOSE x \in found : \A y \in found : x <= y
                 updated == [list EXCEPT ![i].name = name]
             IN  DaoOutcome("none", TRUE, updated[i], updated)

\* a delete_user that removes the first user with the id only (list.remove)
delete_user_FirstOnly(list, user_id) ==
    LET found == { i \in 1..Len(list) : list[i].id = user_id }
    IN  IF found = {} THEN DaoOutcome("none", FALSE, NoUser, list)
        ELSE LET i == CHOOSE x \in found : \A y \in found : x <= y
             IN  DaoOutcome("none", FALSE, NoUser,
                            SubSeq(list, 1, i - 1) \o SubSeq(list, i + 1, Len(list)))

\* UserDao.delete_user: the users with another id are kept
delete_user(list, user_id) ==
    LET keep(u) == u.id # user_id
    IN  DaoOutcome("none", FALSE, NoUser, SelectSeq(list, keep))

\* an HTTP exchange: the request (op, id, name) and the response (status,
\* the user or list of the body, the detail of an error body)
Exchange(op, id, name, status, user, list, detail) ==
    [op |-> op, id |-> id, name |-> name, status |-> status,
     user |-> user, list |-> list, detail |-> detail]

NoExchange == Exchange("none", 0, "", 0, NoUser, <<>>, "")

\* an exception that leaves a handler is answered 500 by the server
ServerError(op, id, name) == Exchange(op, id, name, 500, NoUser, <<>>, "Internal Server Error")

\* UserController.list_users
UserController_list_users(list) ==
    Exchange("LIST", 0, "", 200, NoUser, get_users(list), "")

\* UserController.create_user
UserController_create_user(list, name) ==
    Exchange("POST", 0, name, 201, NoUser, <<>>, "")

\* UserController.get_user
UserController_get_user(list, user_id) ==
    LET user == get_user(list, user_id)
    IN  IF user.raised # "none" THEN ServerError("GET", user_id, "")
        ELSE IF ~user.found
        THEN Exchange("GET", user_id, "", 404, NoUser, <<>>, "User not found")
        ELSE Exchange("GET", user_id, "", 200, user.user, <<>>, "")

\* UserController.update_user
UserController_update_user(list, user_id, name) ==
    LET updated_user == update_user(list, user_id, name)
    IN  IF updated_user.raised # "none" THEN ServerError("PUT", user_id, name)
        ELSE IF ~updated_user.found
        THEN Exchange("PUT", user_id, name, 404, NoUser, <<>>, "User not found")
        ELSE Exchange("PUT", user_id, name, 200, updated_user.user, <<>>, "")

\* UserController.delete_user
UserController_delete_user(list, user_id) ==
    Exchange("DELETE", user_id, "", 204, NoUser, <<>>, "")

\* the most users the store holds in the model
MaxUsers == 11

Names == {"Alice", "Bob"}

\* the ids of the requests: before, at and past both ends of the list
RequestIds == {-Len(InitialUsers), 0, 1, 2, 9999} \cup (Len(InitialUsers)..MaxUsers)

(***************************************************************************)
(* The view types and register calls of the model                           *)
(***************************************************************************)
\* the most register calls of a behaviour
MaxRegisters == 2

ViewNames == <<"V1", "V2">>
MethodNames == {1, 2}
Prefixes == {"", "/api"}

RouteInfos ==
    { route("/", Some(<<"GET", "OPTIONS">>), NoneList, NoneList, 200, FALSE),
      route("/{user_id}", Some(<<"PUT">>), Some(<<"rt">>), Some(<<"rd">>), 201, FALSE),
      route("items", NoneList, Some(<<>>), NoneList, 200, TRUE) }

Methods == { Method(FALSE, NoRouteInfo) } \cup { Method(TRUE, r) : r \in RouteInfos }

MethodTables == UNION { [names -> Methods] : names \in SUBSET MethodNames }

\* the class attributes a body sets itself
OwnChoices ==
    { {},
      {"path", "tags", "dependencies"},
      {"path", "tags", "dependencies", "router_kwargs"},
      {"path", "router_kwargs"} }

\* the route methods of the called view type: async def and def, with and
\* without a request parameter
CallMethods ==
    { Function(is_async, parameters, TRUE, r) :
        is_async \in BOOLEAN,
        parameters \in { <<"self">>, <<"self", "user_id">> },
        r \in { r \in RouteInfos : ~r.rejected } }

CallBodies ==
    { [base |-> APIView, own |-> {"path"},
       path |-> "/user", tags |-> <<>>, dependencies |-> <<>>,
       router_kwargs |-> EmptyDict,
       methods |-> ms] : ms \in [MethodNames -> CallMethods] }

\* the request arguments a handler is called with
CallArgs == { <<>>, <<1>>, <<2>> }

\* the class bodies: what the body sets itself (own), and its functions
ClassBodies(bases) ==
    { [base |-> b, own |-> o,
       path |-> "/user", tags |-> <<"vt">>, dependencies |-> <<"vd">>,
       router_kwargs |-> IF "tags" \in o
                         THEN [k \in {"deprecated"} |-> "True"]
                         ELSE [k \in {"prefix", "deprecated"} |->
                                  IF k = "prefix" THEN "/x" ELSE "True"],
       methods |-> ms] :
        b \in bases, o \in OwnChoices, ms \in MethodTables }

(***************************************************************************)
(* The configuration loader (src/core/config.py)                            *)
(***************************************************************************)
\* no load_settings call has returned yet
NoSettings == [called |-> FALSE, app |-> EmptyDict]

\* str.upper() of the attribute names
upper(key) ==
    CASE key = "app" -> "APP"
      [] key = "title" -> "TITLE"
      [] key = "host" -> "HOST"

\* class AppConfig: two of its fields, with their defaults
AppConfigDefaults == [title |-> "FastAPI Application", host |-> "0.0.0.0"]

\* config_obj.model_fields.get(key).annotation for these fields
annotation(key) == "str"

\* _convert_env_value(value, target_type); the values of the model are in
\* lower case, as value.lower() leaves them
_convert_env_value(value, target_type) ==
    CASE target_type = "bool" -> value \in {"true", "1", "yes", "y", "t"}
      [] OTHER -> value

\* AppConfig(**init_kwargs): a settings class with env_prefix "FAUTIL_APP_";
\* a field takes its init argument, else the environment variable
\* FAUTIL_APP_<FIELD>, else its default
AppConfig(env, init_kwargs) ==
    [key \in DOMAIN AppConfigDefaults |->
        IF key \in DOMAIN init_kwargs THEN init_kwargs[key]
        ELSE IF ("FAUTIL_APP_" \o upper(key)) \in DOMAIN env
             THEN env["FAUTIL_APP_" \o upper(key)]
             ELSE AppConfigDefaults[key]]

\* Settings(): a settings class with env_prefix "FAUTIL_" and
\* env_nested_delimiter "__"; the variables FAUTIL_APP__<FIELD> become the
\* init arguments of the app field, which is AppConfig() without any
Settings(env) ==
    [called |-> TRUE,
     app |-> AppConfig(env,
                 [key \in {k \in DOMAIN AppConfigDefaults :
                              ("FAUTIL_APP__" \o upper(k)) \in DOMAIN env} |->
                     env["FAUTIL_APP__" \o upper(key)]])]

\* load_dotenv(env_path), without override: a variable of the file is set
\* in os.environ unless the process has it already
load_dotenv(env, file) == DictUpdate(file, env)

\* _load_dotenv_file: the file that is found is loaded; a missing file is
\* the file without lines
_load_dotenv_file(env, file) == load_dotenv(env, file)

\* _apply_config_dict(settings, config_dict): a key the settings object does
\* not have is skipped; the nested keys of a section are set one by one
_apply_config_dict(s, config_dict) ==
    IF "app" \in DOMAIN config_dict
    THEN [s EXCEPT !.app =
             [nested_key \in DOMAIN s.app |->
                 IF nested_key \in DOMAIN config_dict["app"]
                 THEN config_dict["app"][nested_key]
                 ELSE s.app[nested_key]]]
    ELSE s

\* _handle_nested_config(config_name, config_obj): the environment variable
\* FAUTIL_<CONFIG_NAME>__<KEY>, when set, replaces the attribute
_handle_nested_config(config_name, config_obj, env) ==
    [key \in DOMAIN config_obj |->
        IF ("FAUTIL_" \o upper(config_name) \o "__" \o upper(key)) \in DOMAIN env
        THEN _convert_env_value(
                 env["FAUTIL_" \o upper(config_name) \o "__" \o upper(key)],
                 annotation(key))
        ELSE config_obj[key]]

\* _apply_environment_variables(settings): app is a nested configuration
\* object
_apply_environment_variables(s, env) ==
    [s EXCEPT !.app = _handle_nested_config("app", s.app, env)]

\* load_settings(Settings, config_path, env_file): os.environ after the call,
\* and the settings object returned
load_settings(env, file, config_dict) ==
    LET loaded == _load_dotenv_file(env, file)
        created == Settings(loaded)
        applied == IF DOMAIN config_dict # {}
                   THEN _apply_config_dict(created, config_dict)
                   ELSE created
    IN  [environ |-> loaded,
         settings |-> _apply_environment_variables(applied, loaded)]

\* the two names of a setting of the app section
TopLevelForm(key) == "FAUTIL_APP_" \o upper(key)
NestedForm(key) == "FAUTIL_APP__" \o upper(key)
EnvNames ==
    {TopLevelForm(key) : key \in DOMAIN AppConfigDefaults}
        \cup {NestedForm(key) : key \in DOMAIN AppConfigDefaults}

\* the dicts with some of the keys
PartialMaps(ks, vs) == UNION {[d -> vs] : d \in SUBSET ks}

\* what the process environment, the .env file and the config file hold
ProcessEnvs == PartialMaps(EnvNames, {"env-1", "env-2"})
DotenvFiles == PartialMaps(EnvNames, {"dotenv-1"})
ConfigFiles ==
    {EmptyDict} \cup
    {[section \in {"app"} |-> d] :
        d \in PartialMaps(DOMAIN AppConfigDefaults, {"file-1"})}

(***************************************************************************)
(* Initial states                                                           *)
(***************************************************************************)
\* the scanner on any of the package trees, before a call; no view type
\* defined; the example users
ScanInit ==
    /\ package \in RootPackages
    /\ scanResult = NoScan
    /\ bootResult = NoBoot
    /\ _registered_modules = EmptyDict
    /\ injector = NoInjector
    /\ configured = {}
    /\ allBindings = NoBindings
    /\ views = EmptyDict
    /\ app = <<>>
    /\ lastRegister = NoRegister
    /\ lastCall = NoCall
    /\ retry = NoRetry
    /\ IS_SHUTTING_DOWN = FALSE
    /\ ACTIVE_REQUESTS = 0
    /\ requests = [r \in 1..MaxRequests |-> NewRequest]
    /\ shutdown = NotShuttingDown
    /\ environ = EmptyDict
    /\ dotenvFile = EmptyDict
    /\ configFile = EmptyDict
    /\ settings = NoSettings
    /\ users = InitialUsers
    /\ response = NoExchange

\* the views and the user resource: the same, with the scanner on an empty
\* module
Init ==
    /\ package = Unit("mod", "ok", <<>>, <<>>)
    /\ scanResult = NoScan
    /\ bootResult = NoBoot
    /\ _registered_modules = EmptyDict
    /\ injector = NoInjector
    /\ configured = {}
    /\ allBindings = NoBindings
    /\ views = EmptyDict
    /\ app = <<>>
    /\ lastRegister = NoRegister
    /\ lastCall = NoCall
    /\ retry = NoRetry
    /\ IS_SHUTTING_DOWN = FALSE
    /\ ACTIVE_REQUESTS = 0
    /\ requests = [r \in 1..MaxRequests |-> NewRequest]
    /\ shutdown = NotShuttingDown
    /\ environ = EmptyDict
    /\ dotenvFile = EmptyDict
    /\ configFile = EmptyDict
    /\ settings = NoSettings
    /\ users = InitialUsers
    /\ response = NoExchange

(***************************************************************************)
(* Scanner actions                                                          *)
(***************************************************************************)
\* a call of _scan_package on the package
ScanPackage ==
    /\ scanResult' = _scan_package(package)
    /\ UNCHANGED <<package, bootResult, _registered_modules,
                    injector, configured, allBindings>>
    /\ UNCHANGED <<viewVars, userVars, sideVars>>

\* a call of setup_modules on the package
SetupModules ==
    /\ bootResult' = setup_modules(package)
    /\ _registered_modules' =
          IF setup_modules(package).raised = "none"
          THEN configure(_registered_modules, setup_modules(package).bindings)
          ELSE _registered_modules
    /\ injector' =
          IF setup_modules(package).raised = "none"
          THEN Injector(setup_modules(package).bindings)
          ELSE injector
    /\ configured' =
          IF setup_modules(package).raised = "none"
          THEN configured \cup {setup_modules(package).bindings}
          ELSE configured
    /\ UNCHANGED <<package, scanResult, allBindings>>
    /\ UNCHANGED <<viewVars, userVars, sideVars>>

ScanNext == ScanPackage \/ SetupModules

SpecScan == ScanInit /\ [][ScanNext]_vars

(***************************************************************************)
(* Container actions                                                        *)
(***************************************************************************)
\* the containers: the scanner is run on the units of a small package
BootInit ==
    /\ package \in BootPackages
    /\ scanResult = NoScan
    /\ bootResult = NoBoot
    /\ _registered_modules = EmptyDict
    /\ injector = NoInjector
    /\ configured = {}
    /\ allBindings = NoBindings
    /\ views = EmptyDict
    /\ app = <<>>
    /\ lastRegister = NoRegister
    /\ lastCall = NoCall
    /\ retry = NoRetry
    /\ IS_SHUTTING_DOWN = FALSE
    /\ ACTIVE_REQUESTS = 0
    /\ requests = [r \in 1..MaxRequests |-> NewRequest]
    /\ shutdown = NotShuttingDown
    /\ environ = EmptyDict
    /\ dotenvFile = EmptyDict
    /\ configFile = EmptyDict
    /\ settings = NoSettings
    /\ users = InitialUsers
    /\ response = NoExchange

\* Injector([_create_module_class(setup_objects)]) for the scan map of a unit
\* of the package: the construction runs SetupModule.configure
ConstructContainer ==
    \E u \in UnitsOf(package) :
        LET setup_objects == _scan_package(u)
        IN  /\ setup_objects.raised = "none"
            /\ _registered_modules' = configure(_registered_modules, setup_objects.objs)
            /\ injector' = Injector(setup_objects.objs)
            /\ configured' = configured \cup {setup_objects.objs}
            /\ UNCHANGED <<package, scanResult, bootResult, allBindings>>
            /\ UNCHANGED <<viewVars, userVars, sideVars>>

\* a call of get_all_bindings on the container constructed last; the
\* registry is a dict, iterated in the order its keys were first entered
GetAllBindings ==
    \E keys \in Orders(DOMAIN _registered_modules),
       resolves \in [DOMAIN _registered_modules -> ResolveOutcomes] :
        /\ injector.built
        /\ allBindings' = get_all_bindings(keys, injector, resolves)
        /\ UNCHANGED <<package, scanResult, bootResult, _registered_modules,
                        injector, configured>>
        /\ UNCHANGED <<viewVars, userVars, sideVars>>

BootNext == SetupModules \/ ConstructContainer \/ GetAllBindings

SpecBoot == BootInit /\ [][BootNext]_vars

(***************************************************************************)
(* View actions                                                             *)
(***************************************************************************)
\* class V(base): ... -- the next view type is defined
DefineView ==
    \E i \in 1..Len(ViewNames) :
        /\ ViewNames[i] \notin DOMAIN views
        /\ \A j \in 1..(i - 1) : ViewNames[j] \in DOMAIN views
        /\ \E body \in ClassBodies({APIView} \cup DOMAIN views) :
              views' = DefineClass(views, ViewNames[i], body)
        /\ UNCHANGED <<app, lastRegister, lastCall>>
        /\ UNCHANGED <<scanVars, userVars, sideVars>>

\* V().register(app, prefix) on a new instance of a defined view type
Register ==
    \E cls \in DOMAIN views, prefix \in Prefixes :
        /\ lastRegister.instance < MaxRegisters
        /\ LET instance == lastRegister.instance + 1
               router_kwargs == RouterKwargs(views, cls, prefix)
               router == _register_routes(views[cls]._routes, 1, router_kwargs, instance)
           IN  /\ lastRegister' = RegisterOutcome(router.raised, cls, instance, prefix,
                                                  router_kwargs, router.routes)
               /\ app' = AppAfterRegister(app, router)
               /\ views' = IF router.raised = "none"
                            THEN SetRegistered(views, cls) ELSE views
               /\ UNCHANGED lastCall
        /\ UNCHANGED <<scanVars, userVars, sideVars>>

ViewNext == DefineView \/ Register

(***************************************************************************)
(* Handler calls: a view type with two routes, registered and called        *)
(***************************************************************************)
\* the handlers: a view type V1 with two route methods is defined
CallInit ==
    /\ package = Unit("mod", "ok", <<>>, <<>>)
    /\ scanResult = NoScan
    /\ bootResult = NoBoot
    /\ _registered_modules = EmptyDict
    /\ injector = NoInjector
    /\ configured = {}
    /\ allBindings = NoBindings
    /\ views \in { DefineClass(EmptyDict, "V1", body) : body \in CallBodies }
    /\ app = <<>>
    /\ lastRegister = NoRegister
    /\ lastCall = NoCall
    /\ retry = NoRetry
    /\ IS_SHUTTING_DOWN = FALSE
    /\ ACTIVE_REQUESTS = 0
    /\ requests = [r \in 1..MaxRequests |-> NewRequest]
    /\ shutdown = NotShuttingDown
    /\ environ = EmptyDict
    /\ dotenvFile = EmptyDict
    /\ configFile = EmptyDict
    /\ settings = NoSettings
    /\ users = InitialUsers
    /\ response = NoExchange

\* a request reaches a route of the application: its handler is called
CallHandler ==
    \E j \in 1..Len(app), args \in CallArgs :
        /\ lastCall' = endpoint(views, j, app[j].endpoint, args)
        /\ UNCHANGED <<views, app, lastRegister>>
        /\ UNCHANGED <<scanVars, userVars, sideVars>>

CallNext == Register \/ CallHandler

SpecCall == CallInit /\ [][CallNext]_vars

SpecView == Init /\ [][ViewNext]_vars

(***************************************************************************)
(* backoff_retry actions: one call of a wrapper                             *)
(***************************************************************************)
\* the most retries a wrapper is configured with
MaxRetries == 2

\* delays in tenths of a second
BaseDelays == {10, 20}
MaxDelays == {20, 30}
Factors == {1, 2, 3}

\* 0.5 + random.random() lies in [0.5, 1.5): the multiplier times ten
JitterTenths == {5, 10, 14}

\* how an invocation of func ends: it returns, raises an exception of the
\* exceptions tuple, or raises another exception
InvokeOutcomes == {"ok", "retryable", "other"}

\* a call of a function wrapped by backoff_retry(max_retries, ...)
CallWrapper ==
    \E max_retries \in 0..MaxRetries, base_delay \in BaseDelays,
       max_delay \in MaxDelays, factor \in Factors, jitter \in BOOLEAN :
        /\ retry.pc = "idle"
        /\ retry' = Wrapper(max_retries, base_delay, max_delay, factor, jitter)
        /\ UNCHANGED <<scanVars, viewVars, userVars, wsgiVars, configVars>>

\* time.sleep(delay) / await asyncio.sleep(delay) before attempt > 0
Sleep ==
    \E tenths \in JitterTenths :
        /\ retry.pc = "sleep"
        /\ retry' = [retry EXCEPT !.pc = "invoke",
                                   !.slept = Append(@, Delay(retry, tenths))]
        /\ UNCHANGED <<scanVars, viewVars, userVars, wsgiVars, configVars>>

\* func(*args, **kwargs) and the except clause
Invoke ==
    \E outcome \in InvokeOutcomes :
        /\ retry.pc = "invoke"
        /\ retry' = AfterInvoke(retry, outcome)
        /\ UNCHANGED <<scanVars, viewVars, userVars, wsgiVars, configVars>>

RetryNext == CallWrapper \/ Sleep \/ Invoke

SpecRetry == Init /\ [][RetryNext]_vars

(***************************************************************************)
(* wsgi actions: requests through the middleware, and shutdown_app          *)
(***************************************************************************)
\* a request reaches request_middleware: the code up to await call_next
RequestArrives ==
    \E r \in 1..MaxRequests :
        /\ requests[r].pc = "new"
        /\ requests' = [requests EXCEPT ![r] = Enter(IS_SHUTTING_DOWN)]
        /\ ACTIVE_REQUESTS' = Admitted(IS_SHUTTING_DOWN, ACTIVE_REQUESTS)
        /\ UNCHANGED <<IS_SHUTTING_DOWN, shutdown>>
        /\ UNCHANGED <<scanVars, viewVars, userVars, retryVars, configVars>>

\* call_next returns or raises: the code after await call_next
RequestFinishes ==
    \E r \in 1..MaxRequests, outcome \in HandlerOutcomes :
        /\ requests[r].pc = "handling"
        /\ requests' = [requests EXCEPT ![r] =
                            IF outcome = "response" THEN Request("done", 200)
                            ELSE Request("failed", 500)]
        /\ ACTIVE_REQUESTS' = Finished(ACTIVE_REQUESTS, outcome)
        /\ UNCHANGED <<IS_SHUTTING_DOWN, shutdown>>
        /\ UNCHANGED <<scanVars, viewVars, userVars, retryVars, configVars>>

\* shutdown_app up to its first await: the flag is set, and the wait loop is
\* entered when requests are active
ShutdownApp ==
    /\ shutdown.pc = "idle"
    /\ IS_SHUTTING_DOWN' = TRUE
    /\ shutdown' = Shutdown(IF ACTIVE_REQUESTS > 0 THEN "check" ELSE "release", 0)
    /\ UNCHANGED <<ACTIVE_REQUESTS, requests>>
    /\ UNCHANGED <<scanVars, viewVars, userVars, retryVars, configVars>>

\* the test of the wait loop: await asyncio.sleep(1), or on to the release
WaitCheck ==
    /\ shutdown.pc = "check"
    /\ shutdown' = Shutdown(IF KeepsWaiting(ACTIVE_REQUESTS, shutdown.wait_seconds)
                             THEN "sleep" ELSE "release",
                             shutdown.wait_seconds)
    /\ UNCHANGED <<IS_SHUTTING_DOWN, ACTIVE_REQUESTS, requests>>
    /\ UNCHANGED <<scanVars, viewVars, userVars, retryVars, configVars>>

\* asyncio.sleep(1) returns: wait_seconds += 1
WaitSleep ==
    /\ shutdown.pc = "sleep"
    /\ shutdown' = Shutdown("check", shutdown.wait_seconds + 1)
    /\ UNCHANGED <<IS_SHUTTING_DOWN, ACTIVE_REQUESTS, requests>>
    /\ UNCHANGED <<scanVars, viewVars, userVars, retryVars, configVars>>

\* with_timeout(shutdown_resources(), timeout=SHUTDOWN_TIMEOUT) ends, and
\* shutdown_app goes on to its last step
ReleaseResources ==
    \E outcome \in ReleaseOutcomes :
        /\ shutdown.pc = "release"
        /\ shutdown' = Shutdown(AfterRelease(outcome), shutdown.wait_seconds)
        /\ UNCHANGED <<IS_SHUTTING_DOWN, ACTIVE_REQUESTS, requests>>
        /\ UNCHANGED <<scanVars, viewVars, userVars, retryVars, configVars>>

WsgiNext ==
    \/ RequestArrives \/ RequestFinishes
    \/ ShutdownApp \/ WaitCheck \/ WaitSleep \/ ReleaseResources

SpecWsgi == Init /\ [][WsgiNext]_vars

\* the event loop runs shutdown_app on: a sleep returns, with_timeout ends;
\* nothing makes a handler finish
SpecWsgiLive ==
    /\ Init
    /\ [][WsgiNext]_vars
    /\ WF_vars(WaitCheck)
    /\ WF_vars(WaitSleep)
    /\ WF_vars(ReleaseResources)

(***************************************************************************)
(* User resource actions: one request through controller, service and DAO   *)
(***************************************************************************)
\* GET /api/user/
ListUsers ==
    /\ response' = UserController_list_users(users)
    /\ UNCHANGED users
    /\ UNCHANGED <<scanVars, viewVars, sideVars>>

\* POST /api/user/ {name}
CreateUser ==
    \E name \in Names :
        /\ Len(users) < MaxUsers
        /\ response' = UserController_create_user(users, name)
        /\ users' = create_user(users, name).list
        /\ UNCHANGED <<scanVars, viewVars, sideVars>>

\* GET /api/user/{user_id}
GetUser ==
    \E user_id \in RequestIds :
        /\ response' = UserController_get_user(users, user_id)
        /\ UNCHANGED users
        /\ UNCHANGED <<scanVars, viewVars, sideVars>>

\* PUT /api/user/{user_id} {name}
UpdateUser ==
    \E user_id \in RequestIds, name \in Names :
        /\ response' = UserController_update_user(users, user_id, name)
        /\ users' = update_user(users, user_id, name).list
        /\ UNCHANGED <<scanVars, viewVars, sideVars>>

\* DELETE /api/user/{user_id}
DeleteUser ==
    \E user_id \in RequestIds :
        /\ response' = UserController_delete_user(users, user_id)
        /\ users' = delete_user(users, user_id).list
        /\ UNCHANGED <<scanVars, viewVars, sideVars>>

UserNext == ListUsers \/ CreateUser \/ GetUser \/ UpdateUser \/ DeleteUser

SpecUser == Init /\ [][UserNext]_vars

(***************************************************************************)
(* The configuration loader: the specification                              *)
(***************************************************************************)
\* any process environment, .env file and config file, before load_settings
ConfigInit ==
    /\ package = Unit("mod", "ok", <<>>, <<>>)
    /\ scanResult = NoScan
    /\ bootResult = NoBoot
    /\ _registered_modules = EmptyDict
    /\ injector = NoInjector
    /\ configured = {}
    /\ allBindings = NoBindings
    /\ views = EmptyDict
    /\ app = <<>>
    /\ lastRegister = NoRegister
    /\ lastCall = NoCall
    /\ retry = NoRetry
    /\ IS_SHUTTING_DOWN = FALSE
    /\ ACTIVE_REQUESTS = 0
    /\ requests = [r \in 1..MaxRequests |-> NewRequest]
    /\ shutdown = NotShuttingDown
    /\ environ \in ProcessEnvs
    /\ dotenvFile \in DotenvFiles
    /\ configFile \in ConfigFiles
    /\ settings = NoSettings
    /\ users = InitialUsers
    /\ response = NoExchange

\* load_settings(Settings): the .env file sets variables of the process
LoadSettings ==
    /\ environ' = load_settings(environ, dotenvFile, configFile).environ
    /\ settings' = load_settings(environ, dotenvFile, configFile).settings
    /\ UNCHANGED <<dotenvFile, configFile>>
    /\ UNCHANGED <<scanVars, viewVars, userVars, retryVars, wsgiVars>>

ConfigNext == LoadSettings

SpecConfig == ConfigInit /\ [][ConfigNext]_vars

(***************************************************************************)
(* Scanner claims                                                           *)
(***************************************************************************)
\* every unit of the tree imports
RECURSIVE AllImport(_)
AllImport(u) ==
    /\ u.imp = "ok"
    /\ \A i \in 1..Len(u.items) : AllImport(u.items[i])

\* the marked members of the tree in scan order: those of the unit itself,
\* then those of its items in directory order
RECURSIVE Candidates(_)
RECURSIVE ItemCandidates(_)
ItemCandidates(items) ==
    IF items = <<>> THEN <<>>
    ELSE Candidates(Head(items)) \o ItemCandidates(Tail(items))
Candidates(u) ==
    IF u.imp # "ok" THEN <<>>
    ELSE SelectSeq(u.members, _is_setup_decorated) \o ItemCandidates(u.items)

\* the first candidate of a sequence that claims key k
FirstFor(cands, k) ==
    cands[CHOOSE i \in 1..Len(cands) :
            /\ binding_type(cands[i]) = k
            /\ \A j \in 1..(i - 1) : binding_type(cands[j]) # k]

ClaimedKeys(cands) == { binding_type(cands[i]) : i \in 1..Len(cands) }

\* two candidates of the tree claim the same key with different objects
HasDuplicateKey(u) ==
    \E i, j \in 1..Len(Candidates(u)) :
        /\ i < j
        /\ binding_type(Candidates(u)[i]) = binding_type(Candidates(u)[j])
        /\ Candidates(u)[i].obj # Candidates(u)[j].obj

\* C1: after _scan_package on a tree whose units all import, the returned map
\* has exactly the claimed binding keys, and each key holds the candidate met
\* first in scan order (a later candidate never replaces it).
C1_FirstOccurrenceWins ==
    (scanResult.called /\ AllImport(package)) =>
        /\ scanResult.raised = "none"
        /\ DOMAIN scanResult.objs = ClaimedKeys(Candidates(package))
        /\ \A k \in DOMAIN scanResult.objs :
              scanResult.objs[k] = FirstFor(Candidates(package), k).obj

\* the units of the tree that are reached by the scan and import
RECURSIVE ImportedUnits(_)
ImportedUnits(u) ==
    IF u.imp # "ok" THEN {}
    ELSE {u} \cup UNION { ImportedUnits(u.items[i]) : i \in 1..Len(u.items) }

\* the units of the tree whose import raises
RECURSIVE FailingUnits(_)
FailingUnits(u) ==
    IF u.imp # "ok" THEN {u}
    ELSE UNION { FailingUnits(u.items[i]) : i \in 1..Len(u.items) }

OwnKeys(u) == ClaimedKeys(SelectSeq(u.members, _is_setup_decorated))

\* C2: when a submodule or subpackage of the scanned tree raises on import
\* (whatever the exception), _scan_package still returns, and its map has the
\* binding keys of every unit that imports.
C2_FailingUnitSkipped ==
    (scanResult.called /\ package.imp = "ok") =>
        /\ scanResult.raised = "none"
        /\ \A u \in ImportedUnits(package) : OwnKeys(u) \subseteq DOMAIN scanResult.objs

\* C3: setup_modules on a root package that cannot be imported raises the
\* import failure to its caller and returns no container.
C3_UnimportableRootAborts ==
    (bootResult.called /\ package.imp # "ok") =>
        /\ bootResult.raised # "none"
        /\ ~bootResult.returned

(***************************************************************************)
(* View claims                                                              *)
(***************************************************************************)
\* the route-decorated functions of V's own class body
OwnRoutes(V) == { n \in DOMAIN views[V].methods : views[V].methods[n].decorated }

\* the descriptor a registry row was built from
DescriptorOf(row) == views[row.endpoint.owner].methods[row.endpoint.name]._route_info

\* C4: the registry of every view type V has exactly one row per
\* route-decorated method defined directly on V; routes V only inherits add
\* no row.
C4_OneRowPerOwnRoute ==
    \A V \in DOMAIN views :
        /\ Len(views[V]._routes) = Cardinality(OwnRoutes(V))
        /\ \A i \in 1..Len(views[V]._routes) : views[V]._routes[i].endpoint.owner = V

\* C5: the tags of every registry row of V are the tags of its route
\* descriptor when those are non-empty, and V's tags otherwise.
C5_TagsOverride ==
    \A V \in DOMAIN views : \A i \in 1..Len(views[V]._routes) :
        LET row == views[V]._routes[i]
            r == DescriptorOf(row)
        IN  /\ r.tags # <<>> => row.tags = r.tags
            /\ r.tags = <<>> => row.tags = ClassAttr(views, V, "tags")

\* a view type with tags of its own has a row that takes them and a row that
\* keeps its route's tags
C5_Witness ==
    \E V \in DOMAIN views : \E i, j \in 1..Len(views[V]._routes) :
        /\ ClassAttr(views, V, "tags") = <<"vt">>
        /\ DescriptorOf(views[V]._routes[i]).tags = <<>>
        /\ views[V]._routes[i].tags = <<"vt">>
        /\ DescriptorOf(views[V]._routes[j]).tags = <<"rt">>
        /\ views[V]._routes[j].tags = <<"rt">>

\* C6 as stated: the dependencies of every registry row of V are those of its
\* route descriptor when it supplies any, and V's only when it supplies none.
C6_DependenciesOverride ==
    \A V \in DOMAIN views : \A i \in 1..Len(views[V]._routes) :
        LET row == views[V]._routes[i]
            r == DescriptorOf(row)
        IN  /\ r.dependencies # <<>> => row.dependencies = r.dependencies
            /\ r.dependencies = <<>> =>
                  row.dependencies = ClassAttr(views, V, "dependencies")

\* C6 amended: the dependencies of every registry row of V are those of its
\* route descriptor followed by V's: both apply, the route's first.
C6_DependenciesCombined ==
    \A V \in DOMAIN views : \A i \in 1..Len(views[V]._routes) :
        LET row == views[V]._routes[i]
            r == DescriptorOf(row)
            n == Len(r.dependencies)
            vd == ClassAttr(views, V, "dependencies")
        IN  /\ Len(row.dependencies) = n + Len(vd)
            /\ \A k \in 1..n : row.dependencies[k] = r.dependencies[k]
            /\ \A k \in 1..Len(vd) : row.dependencies[n + k] = vd[k]

\* a row whose route and view type both supply dependencies
C6_Witness ==
    \E V \in DOMAIN views : \E i \in 1..Len(views[V]._routes) :
        /\ DescriptorOf(views[V]._routes[i]).dependencies = <<"rd">>
        /\ ClassAttr(views, V, "dependencies") = <<"vd">>
        /\ views[V]._routes[i].dependencies = <<"rd", "vd">>

\* the last register call returned
Registered == lastRegister.called /\ lastRegister.raised = "none"

\* the routes of the application that forward to the function of a row on
\* the instance of the last register call
RoutesOf(row) ==
    { j \in 1..Len(app) :
        app[j].endpoint = [func |-> row.endpoint, instance |-> lastRegister.instance] }

\* every verb of a row is a verb of the route
HasVerbs(rt, row) ==
    \A k \in 1..Len(row.methods.v) :
        \E m \in 1..Len(rt.methods) : rt.methods[m] = row.methods.v[k]

PrefixReplaced(V) ==
    LET kw == ClassAttr(views, V, "router_kwargs")
    IN  Cardinality(DOMAIN kw) > 1 /\ "prefix" \in DOMAIN kw

C8_RoutesFollowRegistry ==
    [][ (lastRegister' # lastRegister /\ lastRegister'.raised = "none") =>
          LET rows == views[lastRegister'.cls]._routes
          IN  /\ Len(app') = Len(app) + Len(rows)
              /\ \A j \in 1..Len(app) : app'[j] = app[j]
              /\ \A i \in 1..Len(rows) :
                    /\ app'[Len(app) + i].endpoint =
                          [func |-> rows[i].endpoint, instance |-> lastRegister'.instance]
                    /\ app'[Len(app) + i].tags = rows[i].tags
                    /\ app'[Len(app) + i].dependencies = rows[i].dependencies
                    /\ app'[Len(app) + i].status_code = rows[i].status_code ]_vars

\* a register call mounted a registry of two rows on an application that
\* already had routes
C8_Witness ==
    /\ Registered
    /\ Len(views[lastRegister.cls]._routes) = 2
    /\ Len(app) > 2

(***************************************************************************)
(* User resource claims                                                     *)
(***************************************************************************)
\* the stored users with an id
StoredWithId(list, id) == { i \in 1..Len(list) : list[i].id = id }

\* C9: in every reachable state of the store, GET /api/user/{id} answers 200
\* with the stored user of that id when there is one, and 404 with detail
\* "User not found" when there is none.
C9_GetByIdOr404 ==
    response.op = "GET" =>
        IF StoredWithId(users, response.id) # {}
        THEN /\ response.status = 200
             /\ response.user.id = response.id
             /\ \E i \in StoredWithId(users, response.id) : users[i] = response.user
        ELSE /\ response.status = 404
             /\ response.detail = "User not found"

\* C10: PUT /api/user/{id} for an id no stored user has answers 404, whatever
\* the body and the state of the store, and leaves the store unchanged.
C10_PutUnknownIs404 ==
    [][ (response'.op = "PUT" /\ StoredWithId(users, response'.id) = {}) =>
          (response'.status = 404 /\ users' = users) ]_vars


(***************************************************************************)
(* User resource: creation, deletion, update then read                      *)
(***************************************************************************)
\* the largest id of a non-empty list of users
MaxId(list) ==
    LET ids == { list[i].id : i \in 1..Len(list) }
    IN  CHOOSE m \in ids : \A x \in ids : x <= m

\* C11: in every reachable state of the store, deletions included, POST
\* /api/user/ with a name answers 201 and adds exactly one user, which carries
\* that name and an id one greater than the largest id present before.
C11_PostAddsMaxIdPlusOne ==
    [][ (response'.op = "POST" /\ users # <<>>) =>
          /\ response'.status = 201
          /\ users' = Append(users, User(MaxId(users) + 1, response'.name)) ]_vars

\* the number of users before position i that have the id
RemovedBefore(list, id, i) == Cardinality({ j \in StoredWithId(list, id) : j < i })

\* C12: DELETE /api/user/{id} answers 204 for every id in every state; when no
\* user has the id the store is unchanged; otherwise exactly the users with
\* that id are gone and the others keep their relative order.
C12_DeleteRemovesThatIdOnly ==
    [][ response'.op = "DELETE" =>
          LET id == response'.id
          IN  /\ response'.status = 204
              /\ (StoredWithId(users, id) = {} => users' = users)
              /\ Len(users') = Len(users) - Cardinality(StoredWithId(users, id))
              /\ \A i \in (1..Len(users)) \ StoredWithId(users, id) :
                     users'[i - RemovedBefore(users, id, i)] = users[i] ]_vars

\* a DELETE of an id that the store held has been answered, and the store
\* has shrunk
C12_Witness ==
    /\ response.op = "DELETE"
    /\ response.status = 204
    /\ response.id = Len(InitialUsers)
    /\ StoredWithId(users, response.id) = {}
    /\ Len(users) = Len(InitialUsers) - 2

\* C13: when PUT /api/user/{id} with name n has answered 200, the response
\* carries that id and name n, and a GET /api/user/{id} issued next answers
\* the same id with name n.
C13_PutThenGet ==
    [][ (response.op = "PUT" /\ response.status = 200) =>
          /\ response.user = User(response.id, response.name)
          /\ (response'.op = "GET" /\ response'.id = response.id) =>
                 /\ response'.status = 200
                 /\ response'.user = User(response.id, response.name) ]_vars


(***************************************************************************)
(* The binding registry and get_all_bindings                                *)
(***************************************************************************)
\* the keys get_all_bindings logged a warning for
Warned(outcome) == { outcome.log[i].key : i \in 1..Len(outcome.log) }

\* C14: get_all_bindings never raises: every key whose resolution fails,
\* whatever the kind of failure, is left out of the result with a warning
\* logged, and every key that resolves is in the result with its instance.
C14_ResolveAllNeverRaises ==
    [][ (allBindings' # allBindings) =>
          /\ allBindings'.raised = "none"
          /\ \A k \in DOMAIN _registered_modules :
                IF allBindings'.resolves[k] = "ok"
                THEN /\ k \in DOMAIN allBindings'.result
                     /\ allBindings'.result[k] = Instance(injector, k)
                ELSE /\ k \notin DOMAIN allBindings'.result
                     /\ k \in Warned(allBindings') ]_vars

\* the registry holds the keys of every Binding Module that has configured a
\* container, and the pairs of the one that configured last
RegistryHolds ==
    /\ \A setup_objects \in configured :
          DOMAIN setup_objects \subseteq DOMAIN _registered_modules
    /\ injector.built =>
          \A k \in DOMAIN injector.bindings :
              /\ k \in DOMAIN _registered_modules
              /\ _registered_modules[k] = injector.bindings[k]

\* C15: after any sequence of setup_modules calls and container
\* constructions the registry holds every key of every Binding Module that
\* has configured a container; configuring enters every pair of the scan
\* map; no step removes a key.
C15_RegistryHoldsEveryKey ==
    [][ /\ RegistryHolds'
        /\ DOMAIN _registered_modules \subseteq DOMAIN _registered_modules' ]_vars

\* two Binding Modules with different keys have configured a container, the
\* last one with fewer keys than the registry holds
C15_Witness ==
    /\ Cardinality(configured) >= 2
    /\ injector.built
    /\ DOMAIN injector.bindings # DOMAIN _registered_modules
    /\ \E a, b \in configured : DOMAIN a # DOMAIN b


(***************************************************************************)
(* The scan map: keys, marking, duplicates                                  *)
(***************************************************************************)
\* the members of all the units of a tree
AllMembers(u) ==
    UNION { { v.members[i] : i \in 1..Len(v.members) } : v \in UnitsOf(u) }

\* C16: every entry of the scan map is a class or function @setup was applied
\* to, under the protocol given to @setup when one was given and under the
\* object itself when none was; objects without the marking never appear.
C16_KeysOfMarkedObjectsOnly ==
    (scanResult.called /\ scanResult.raised = "none") =>
        \A k \in DOMAIN scanResult.objs :
            \E m \in AllMembers(package) :
                /\ m.applied
                /\ m.obj = scanResult.objs[k]
                /\ k = (IF m.protocol = None THEN m.obj ELSE m.protocol)

\* the candidates of the tree whose key an earlier candidate has claimed
DuplicateCandidates(u) ==
    { j \in 1..Len(Candidates(u)) :
        \E i \in 1..(j - 1) :
            binding_type(Candidates(u)[i]) = binding_type(Candidates(u)[j]) }

\* C20: whenever the scanner meets a candidate whose binding key is already
\* in the scan result, it records a warning-level log event for that
\* duplicate and raises no error.
C20_DuplicateLoggedAsWarning ==
    (scanResult.called /\ AllImport(package)) =>
        /\ scanResult.raised = "none"
        /\ Cardinality({ i \in 1..Len(scanResult.log) : scanResult.log[i] = "warning" })
              = Cardinality(DuplicateCandidates(package))


(***************************************************************************)
(* The view registry after definition, the is_registered flag, rejected     *)
(* routes                                                                   *)
(***************************************************************************)
\* the rows of a registry are pairwise different
NoRowTwice(rows) ==
    \A i, j \in 1..Len(rows) : i # j => rows[i].endpoint # rows[j].endpoint

\* C17: the registry of a view type is built at its definition and never
\* changes afterwards: whatever is registered or defined next, it holds the
\* same rows in the same order, none of them twice.
C17_RegistryImmutable ==
    [][ \A V \in DOMAIN views :
          /\ views'[V]._routes = views[V]._routes
          /\ NoRowTwice(views'[V]._routes) ]_vars

\* two register calls have returned, one on V1 and one on another type, and
\* V1 has a registry of two rows
C17_Witness ==
    /\ Registered
    /\ lastRegister.instance = 2
    /\ DOMAIN views = {"V1", "V2"}
    /\ Len(views["V1"]._routes) = 2
    /\ \E j, k \in 1..Len(app) :
          /\ app[j].endpoint.instance = 1
          /\ app[k].endpoint.instance = 2
    /\ views["V1"].registered /\ views["V2"].registered

\* C18: once a register call on an instance of V has returned, V's
\* is_registered is true and stays true; a register call on a second
\* instance is accepted, leaves the flag true and mounts V's routes again.
C18_FlagStaysTrue ==
    [][ /\ \A V \in DOMAIN views : is_registered(views, V) => is_registered(views', V)
        /\ (lastRegister' # lastRegister /\ lastRegister'.raised = "none") =>
              LET V == lastRegister'.cls
              IN  /\ is_registered(views', V)
                  /\ Len(app') = Len(app) + Len(views[V]._routes)
                  /\ \A i \in 1..Len(views[V]._routes) :
                        app'[Len(app) + i].endpoint =
                            [func |-> views[V]._routes[i].endpoint,
                             instance |-> lastRegister'.instance] ]_vars

\* a second instance of the only view type has been registered: its routes
\* are on the application twice
C18_Witness ==
    /\ Registered
    /\ lastRegister.instance = 2
    /\ DOMAIN views = {"V1"}
    /\ views["V1"].registered
    /\ Len(views["V1"]._routes) >= 1
    /\ Len(app) = 2 * Len(views["V1"]._routes)

\* a registry has a row the router refuses
HasRejectedRow(rows) == \E i \in 1..Len(rows) : rows[i].rejected

\* C19: defining a view type with a route descriptor the router will refuse
\* does not fail: the row is in the registry. The failure appears when
\* register mounts the row, and leaves register uncaught.
C19_RejectedAtMountOnly ==
    /\ \A V \in DOMAIN views :
          \A name \in MemberNames(views, V) :
              LET method == views[Owner(views, V, name)].methods[name]
              IN  (method.decorated /\ method._route_info.rejected) =>
                      \E i \in 1..Len(views[V]._routes) :
                          /\ views[V]._routes[i].endpoint.name = name
                          /\ views[V]._routes[i].rejected
    /\ lastRegister.called =>
          (lastRegister.raised = "RouteError"
              <=> HasRejectedRow(views[lastRegister.cls]._routes))

\* a register call on a view type with a refused row has raised
C19_Witness ==
    /\ lastRegister.called
    /\ lastRegister.raised = "RouteError"
    /\ HasRejectedRow(views[lastRegister.cls]._routes)


(***************************************************************************)
(* User resource: ids of the stored users                                   *)
(***************************************************************************)
\* C28: in every state of the user store reachable by create, update and
\* delete operations, no two stored users have the same id.
C28_IdsUnique ==
    \A i, j \in 1..Len(users) : i # j => users[i].id # users[j].id

(***************************************************************************)
(* register: the arguments of the APIRouter                                 *)
(***************************************************************************)
\* C24: every entry of a view type's router_kwargs is passed to the
\* APIRouter that register creates, for every non-empty router_kwargs, one
\* with a single entry included.
C24_RouterKwargsPassed ==
    lastRegister.called =>
        LET own == ClassAttr(views, lastRegister.cls, "router_kwargs")
        IN  \A k \in DOMAIN own :
                /\ k \in DOMAIN lastRegister.router_kwargs
                /\ lastRegister.router_kwargs[k] = own[k]


(***************************************************************************)
(* register: a failure while mounting                                       *)
(***************************************************************************)
\* C29: when register fails while mounting a row, the application has gained
\* none of the view's routes, the rows mounted before the failing one
\* included, and the is_registered flag of the view type is as before.
C29_FailedRegisterLeavesNoRoute ==
    [][ (lastRegister' # lastRegister /\ lastRegister'.raised # "none") =>
          /\ app' = app
          /\ \A j \in 1..Len(app') :
                app'[j].endpoint.instance # lastRegister'.instance
          /\ \A V \in DOMAIN views :
                is_registered(views', V) = is_registered(views, V) ]_vars

\* a register call has failed on its second row: the router held the route
\* of the first row, the application holds none of that instance
C29_Witness ==
    /\ lastRegister.called
    /\ lastRegister.raised = "RouteError"
    /\ Len(lastRegister.routes) >= 1
    /\ \A j \in 1..Len(app) : app[j].endpoint.instance # lastRegister.instance


(***************************************************************************)
(* Mounted handlers                                                         *)
(***************************************************************************)
\* C23: a mounted handler called with request arguments calls the method of
\* its own registry row on the instance that was registered, passes the
\* arguments unchanged and returns the method's result; its signature is the
\* method's without the leading receiver parameter.
C23_HandlerForwardsToOwnMethod ==
    lastCall.called =>
        LET ep == app[lastCall.route].endpoint
            method == views[ep.func.owner].methods[ep.func.name]
        IN  /\ lastCall.raised = "none"
            /\ lastCall.result = MethodResult(ep.func, ep.instance, lastCall.args)
            /\ <<method.parameters[1]>> \o lastCall.signature = method.parameters


(***************************************************************************)
(* backoff_retry                                                            *)
(***************************************************************************)
\* C22: per call of the wrapper func is invoked at most max_retries + 1
\* times; the wrapper returns the result of the first invocation that
\* succeeds and invokes nothing after it; when all max_retries + 1
\* invocations raise a retryable exception, the exception of the last one is
\* raised to the caller.
C22_AtMostMaxRetriesPlusOne ==
    LET n == Len(retry.invoked)
    IN  /\ n <= retry.max_retries + 1
        /\ \A i \in 1..n :
              retry.invoked[i] = "ok" =>
                  /\ i = n
                  /\ retry.pc = "returned"
                  /\ retry.returned = i
        /\ (/\ n = retry.max_retries + 1
            /\ \A i \in 1..n : retry.invoked[i] = "retryable") =>
              /\ retry.pc = "raised"
              /\ retry.raised = n

\* a wrapper with two retries has given up after three failed invocations
C22_Witness ==
    /\ retry.pc = "raised"
    /\ retry.max_retries = 2
    /\ retry.invoked = <<"retryable", "retryable", "retryable">>
    /\ retry.raised = 3

\* C25: the delay slept before retry attempt k >= 1 never exceeds max_delay,
\* with jitter or without, and is min(base_delay * factor^(k-1), max_delay)
\* before the jitter is applied.
C25_DelayNeverExceedsMaxDelay ==
    \A k \in 1..Len(retry.slept) :
        /\ retry.slept[k].delay <= retry.max_delay
        /\ retry.slept[k].capped =
              Min(retry.base_delay * Pow(retry.factor, k - 1), retry.max_delay)


(***************************************************************************)
(* Request middleware and shutdown                                          *)
(***************************************************************************)
\* C26: once shutdown_app has set IS_SHUTTING_DOWN, every request reaching
\* the middleware is answered 503, is not passed to a handler and leaves
\* ACTIVE_REQUESTS unchanged; the flag never returns to false.
C26_RejectedWhileShuttingDown ==
    [][ /\ IS_SHUTTING_DOWN => IS_SHUTTING_DOWN'
        /\ \A r \in 1..MaxRequests :
              (IS_SHUTTING_DOWN /\ requests[r].pc = "new" /\ requests'[r].pc # "new") =>
                  /\ requests'[r] = Request("rejected", 503)
                  /\ ACTIVE_REQUESTS' = ACTIVE_REQUESTS ]_vars

\* a request has been answered 503 during shutdown while another one,
\* admitted before, is still handled
C26_Witness ==
    /\ IS_SHUTTING_DOWN
    /\ \E r \in 1..MaxRequests : requests[r] = Request("rejected", 503)
    /\ \E r \in 1..MaxRequests : requests[r].pc = "handling"

\* C27: shutdown_app always terminates: it waits only while
\* ACTIVE_REQUESTS > 0 and for at most 30 rounds, then releases the
\* resources, and reaches its last step also when requests never finish or
\* the release times out.
C27_ShutdownTerminates ==
    /\ [][ (shutdown.pc = "check" /\ shutdown'.pc = "sleep") =>
              (ACTIVE_REQUESTS > 0 /\ shutdown.wait_seconds < 30) ]_vars
    /\ [](shutdown.wait_seconds <= 30)
    /\ (shutdown.pc # "idle") ~> (shutdown.pc = "closed")

\* shutdown_app has reached its last step after 30 rounds, with a request
\* still not finished
C27_Witness ==
    /\ shutdown = Shutdown("closed", 30)
    /\ ACTIVE_REQUESTS > 0

\* the requests passed to a handler that has not finished
InFlight == { r \in 1..MaxRequests : requests[r].pc = "handling" }

\* C30: for every interleaving of requests through the middleware, failing
\* and rejected ones included, ACTIVE_REQUESTS is never negative and equals
\* the number of admitted requests whose handling has not finished; it is 0
\* when no request is in flight.
C30_CounterMatchesInFlight ==
    /\ ACTIVE_REQUESTS >= 0
    /\ ACTIVE_REQUESTS = Cardinality(InFlight)

\* a handler has raised, a request has been rejected, none is in flight
C30_Witness ==
    /\ \E r \in 1..MaxRequests : requests[r].pc = "failed"
    /\ \E r \in 1..MaxRequests : requests[r].pc = "rejected"
    /\ InFlight = {}
    /\ ACTIVE_REQUESTS = 0

\* the values the layers give a setting of the app section: those of the
\* process environment under either name, else those of the .env file under
\* either name, else the one of the config file, else the default
ValuesIn(d, key) == {d[n] : n \in {TopLevelForm(key), NestedForm(key)} \cap DOMAIN d}
Resolved(env, file, config_dict, key) ==
    IF ValuesIn(env, key) # {} THEN ValuesIn(env, key)
    ELSE IF ValuesIn(file, key) # {} THEN ValuesIn(file, key)
    ELSE IF "app" \in DOMAIN config_dict /\ key \in DOMAIN config_dict["app"]
         THEN {config_dict["app"][key]}
         ELSE {AppConfigDefaults[key]}

\* C21: load_settings resolves every setting by layered precedence: the value
\* of a process environment variable wins over the one of the .env file,
\* which wins over the one of the config file, which wins over the default,
\* whether the variable is named FAUTIL_<SECTION>_<FIELD> or
\* FAUTIL_<SECTION>__<FIELD>.
C21_LayeredPrecedence ==
    [][LoadSettings =>
          \A key \in DOMAIN AppConfigDefaults :
              settings'.app[key] \in Resolved(environ, dotenvFile, configFile, key)]_vars

====
